---------------------------- MODULE Spec2Model ----------------------------
(***************************************************************************)
(* A model of puddle's core: the grid state manager (GridView, in          *)
(* src/core/src/grid/gridview.rs) and the multi-droplet router with its    *)
(* action translator (src/core/src/plan/route.rs).                         *)
(*                                                                         *)
(* Grid, Location, Droplet::new, Droplet::get_locations, the Map type and  *)
(* MinHeap live in files that are not part of the sources at hand; they    *)
(* are modelled from the specification's description of them.              *)
(***************************************************************************)
EXTENDS Integers, Sequences, FiniteSets, TLC

VARIABLES
    grid,               \* GridView.grid
    droplets,           \* GridView.droplets : DropletId -> Droplet
    split_error_stdev,  \* GridView.split_error_stdev (0: Normal(0, 0))
    panicked,           \* an assert!/expect/panic! of execute has fired
    last,               \* the last action handed to execute
    pc,                 \* where the routing caller is
    tie,                \* how MinHeap orders entries of equal cost
    start,              \* the droplets route() was called on
    result,             \* what route() returned
    attempts,           \* the number of route_many calls route() made
    acts,               \* the action stream still to execute
    rng,                \* GridView.rng: its seed and the samples drawn so far
    twin,               \* the droplets of a second manager fed the same actions
    twin_rng,           \* the rng of the second manager
    twin_result,        \* what route_many returned for the second manager
    stream,             \* what a generator yields: seed -> sequence of samples
    attempt             \* the locals of a route_many call in progress

vars == <<grid, droplets, split_error_stdev, panicked, last,
          pc, tie, start, result, attempts, acts,
          rng, twin, twin_rng, twin_result, stream, attempt>>

managerVars == <<grid, droplets, split_error_stdev, panicked, last>>
routerVars == <<pc, tie, start, result, attempts, acts>>
twinVars == <<rng, twin, twin_rng, twin_result, stream>>
attemptVars == <<attempt>>

(***************************************************************************)
(* Bounds of the model.                                                    *)
(***************************************************************************)
MaxId == 2          \* droplet ids are 1..MaxId
MaxGroup == 2       \* collision groups are 1..MaxGroup
MaxLive == 2        \* droplets alive at once in the manager specification
MaxVolume == 3      \* |volume| of any droplet the manager actions build
MaxSample == 3      \* |sample| drawn from the split error distribution
ManagerHeight == 1  \* the manager specification's grid
ManagerWidth == 3
Margin == 1         \* columns beyond the grid that actions may name
Precision == 2      \* significant bits a volume keeps (f64 keeps 53)
MaxHalf == 6        \* the split specification splits volumes up to 2 * MaxHalf
MaxPathLen == 3     \* longest path handed to paths_to_actions on its own
MaxDraws == 1       \* samples drawn from a generator in the twin specification

Ids == 1..MaxId
Groups == 1..MaxGroup

(***************************************************************************)
(* Option<T>: None and Some(x).                                            *)
(***************************************************************************)
None == <<>>
Some(x) == <<x>>
IsSome(o) == o # None
Unwrap(o) == o[1]

(***************************************************************************)
(* Location and Grid.                                                      *)
(***************************************************************************)
Loc(y, x) == [y |-> y, x |-> x]

Abs(n) == IF n < 0 THEN -n ELSE n

\* Location::distance_to: the Manhattan distance
distance_to(a, b) == Abs(a.y - b.y) + Abs(a.x - b.x)

\* A grid: the bounding array's height and width, and its valid cells.
Rect(h, w) == { Loc(y, x) : y \in 0..(h - 1), x \in 0..(w - 1) }
MkGrid(h, w, cells) == [height |-> h, width |-> w, cells |-> cells]
FullGrid(h, w) == MkGrid(h, w, Rect(h, w))

\* Grid::locations
locations(g) == g.cells

\* Grid::neighbors4: the cardinal neighbours that are cells of the grid
neighbors4(g, loc) ==
    { c \in g.cells : distance_to(c, loc) = 1 }

RECURSIVE Reachable(_, _)
\* the cells reachable from the cells of S by cardinal steps
Reachable(g, S) ==
    LET more == S \cup UNION { neighbors4(g, c) : c \in S }
    IN  IF more = S THEN S ELSE Reachable(g, more)

\* Grid::is_connected
is_connected(g) ==
    \/ g.cells = {}
    \/ Reachable(g, { CHOOSE c \in g.cells : TRUE }) = g.cells

\* Grid::neighbors_dimensions: the cells of the grid in the footprint of a
\* droplet at loc with the given dimensions, inflated by one cell
neighbors_dimensions(g, loc, dimensions) ==
    { c \in g.cells :
        /\ loc.y - 1 <= c.y /\ c.y <= loc.y + dimensions.y
        /\ loc.x - 1 <= c.x /\ c.x <= loc.x + dimensions.x }

\* Droplet::get_locations: the cells a droplet occupies
get_locations(loc, dimensions) ==
    { Loc(y, x) : y \in loc.y..(loc.y + dimensions.y - 1),
                  x \in loc.x..(loc.x + dimensions.x - 1) }

\* Droplet::new: no destination; the specification does not say which
\* collision group a new droplet gets, so it is an input here
DropletNew(id, volume, location, dimensions, cg) ==
    [id |-> id, location |-> location, dimensions |-> dimensions,
     volume |-> volume, destination |-> None, collision_group |-> cg]

(***************************************************************************)
(* GridView: collisions.                                                   *)
(***************************************************************************)
\* the body of get_collision's loops: droplet1's inflated footprint against
\* droplet2's own cells
\* a variant of collide that compares the raw footprints only
collide_raw(g, loc1, dim1, loc2, dim2) ==
    get_locations(loc1, dim1) \cap get_locations(loc2, dim2) # {}

collide(g, loc1, dim1, loc2, dim2) ==
    neighbors_dimensions(g, loc1, dim1) \cap get_locations(loc2, dim2) # {}

\* a variant of CollidingPairs that does not look at the collision groups
CollidingPairsAnyGroup(g, ds) ==
    { p \in (DOMAIN ds) \X (DOMAIN ds) :
        /\ p[1] # p[2]
        /\ collide(g, ds[p[1]].location, ds[p[1]].dimensions,
                      ds[p[2]].location, ds[p[2]].dimensions) }

\* the pairs get_collision may return (it returns the first in map order)
CollidingPairs(g, ds) ==
    { p \in (DOMAIN ds) \X (DOMAIN ds) :
        /\ p[1] # p[2]
        /\ ds[p[1]].collision_group # ds[p[2]].collision_group
        /\ collide(g, ds[p[1]].location, ds[p[1]].dimensions,
                      ds[p[2]].location, ds[p[2]].dimensions) }

get_collision(g, ds) ==
    IF CollidingPairs(g, ds) = {} THEN None
    ELSE Some(CHOOSE p \in CollidingPairs(g, ds) : TRUE)

DestinationCollidingPairs(g, ds) ==
    { p \in (DOMAIN ds) \X (DOMAIN ds) :
        /\ p[1] # p[2]
        /\ ds[p[1]].collision_group # ds[p[2]].collision_group
        /\ IsSome(ds[p[1]].destination) /\ IsSome(ds[p[2]].destination)
        /\ collide(g, Unwrap(ds[p[1]].destination), ds[p[1]].dimensions,
                      Unwrap(ds[p[2]].destination), ds[p[2]].dimensions) }

get_destination_collision(g, ds) ==
    IF DestinationCollidingPairs(g, ds) = {} THEN None
    ELSE Some(CHOOSE p \in DestinationCollidingPairs(g, ds) : TRUE)

(***************************************************************************)
(* GridView: execute.  A call either returns (ok) or panics; a panic       *)
(* aborts the simulation, so the map it leaves behind is not observed and  *)
(* is reported as it was before the call.                                  *)
(***************************************************************************)
Ok(ds) == [ok |-> TRUE, droplets |-> ds]
Panic(ds) == [ok |-> FALSE, droplets |-> ds]

MapInsert(ds, id, d) ==
    [i \in DOMAIN ds \cup {id} |-> IF i = id THEN d ELSE ds[i]]
MapRemove(ds, id) == [i \in DOMAIN ds \ {id} |-> ds[i]]

\* a variant of insert without the assert!: the new droplet replaces the old
insert_overwriting(ds, d) == Ok(MapInsert(ds, d.id, d))

\* GridView::insert: assert!(was_there.is_none())
insert(ds, d) ==
    IF d.id \in DOMAIN ds THEN Panic(ds) ELSE Ok(MapInsert(ds, d.id, d))

\* GridView::remove: expect("Tried to remove a non-existent droplet")
remove(ds, id) ==
    IF id \notin DOMAIN ds THEN Panic(ds) ELSE Ok(MapRemove(ds, id))

\* the clamp of Split: sample.min(volume).max(-volume)
Min2(a, b) == IF a <= b THEN a ELSE b
Max2(a, b) == IF a >= b THEN a ELSE b
clamp_err(sample, volume) == Max2(Min2(sample, volume), -volume)

(***************************************************************************)
(* Volumes are f64.  They are counted here in whole multiples of a quantum *)
(* and every sum or difference is rounded, to nearest and ties to even, to *)
(* Precision significant bits; halving is exact.                           *)
(***************************************************************************)
RECURSIVE Pow2(_)
Pow2(n) == IF n = 0 THEN 1 ELSE 2 * Pow2(n - 1)

RECURSIVE Quantum(_, _)
\* the spacing of the representable numbers around n >= 0
Quantum(n, q) == IF n \div q < Pow2(Precision) THEN q ELSE Quantum(n, 2 * q)

RoundPos(n) ==
    LET q == Quantum(n, 1)
        m == n \div q
        r == n - m * q
    IN  IF 2 * r < q THEN m * q
        ELSE IF 2 * r > q THEN (m + 1) * q
        ELSE IF m % 2 = 0 THEN m * q ELSE (m + 1) * q

\* the f64 nearest to the exact result x
fl(x) == IF x < 0 THEN -RoundPos(-x) ELSE RoundPos(x)

AddDropletA(id, location, dimensions, volume) ==
    [kind |-> "AddDroplet", id |-> id, location |-> location,
     dimensions |-> dimensions, volume |-> volume]
RemoveDropletA(id) == [kind |-> "RemoveDroplet", id |-> id]
MixA(in0, in1, out) == [kind |-> "Mix", in0 |-> in0, in1 |-> in1, out |-> out]
SplitA(inp, out0, out1) ==
    [kind |-> "Split", inp |-> inp, out0 |-> out0, out1 |-> out1]
UpdateDropletA(old_id, new_id) ==
    [kind |-> "UpdateDroplet", old_id |-> old_id, new_id |-> new_id]
MoveDropletA(id, location) ==
    [kind |-> "MoveDroplet", id |-> id, location |-> location]
TickA == [kind |-> "Tick"]
PingA == [kind |-> "Ping"]

\* env: what execute draws from outside the action: the sample of the split
\* error distribution and the collision groups Droplet::new hands out
Env(sample, cg0, cg1) == [sample |-> sample, cg0 |-> cg0, cg1 |-> cg1]

execute_add(g, ds, a, env) ==
    insert(ds, DropletNew(a.id, a.volume, a.location, a.dimensions, env.cg0))

execute_remove(g, ds, a, env) == remove(ds, a.id)

\* a variant of the Mix arm without assert_eq!(d0.location, d1.location)
execute_mix_anywhere(g, ds, a, env) ==
    LET r0 == remove(ds, a.in0)
        r1 == remove(r0.droplets, a.in1)
    IN  IF ~r0.ok \/ ~r1.ok THEN Panic(ds)
        ELSE LET d0 == ds[a.in0]
                 d1 == ds[a.in1]
                 vol == fl(d0.volume + d1.volume)
                 r == insert(r1.droplets,
                             DropletNew(a.out, vol, d0.location,
                                        Loc(1, 1), env.cg0))
             IN  IF r.ok THEN r ELSE Panic(ds)

execute_mix(g, ds, a, env) ==
    LET r0 == remove(ds, a.in0)
        r1 == remove(r0.droplets, a.in1)
    IN  IF ~r0.ok \/ ~r1.ok THEN Panic(ds)
        ELSE LET d0 == ds[a.in0]
                 d1 == ds[a.in1]
                 vol == fl(d0.volume + d1.volume)
             IN  IF d0.location # d1.location THEN Panic(ds)
                 ELSE LET r == insert(r1.droplets,
                                  DropletNew(a.out, vol, d0.location,
                                             Loc(1, 1), env.cg0))
                      IN  IF r.ok THEN r ELSE Panic(ds)

\* the volume split is a multiple of two quanta, so that its half is whole
execute_split(g, ds, a, env) ==
    LET r == remove(ds, a.inp)
    IN  IF ~r.ok THEN Panic(ds)
        ELSE LET d == ds[a.inp]
                 vol == d.volume \div 2
                 err == clamp_err(env.sample, d.volume)
                 vol0 == fl(vol - err)
                 vol1 == fl(vol + err)
                 i0 == insert(r.droplets,
                           DropletNew(a.out0, vol0, d.location, Loc(1, 1),
                                      env.cg0))
                 i1 == insert(i0.droplets,
                           DropletNew(a.out1, vol1, d.location, Loc(1, 1),
                                      env.cg1))
             IN  IF i0.ok /\ i1.ok THEN i1 ELSE Panic(ds)

\* a variant of the UpdateDroplet arm that leaves out d.id = new_id
execute_update_same_id(g, ds, a, env) ==
    LET r == remove(ds, a.old_id)
    IN  IF ~r.ok THEN Panic(ds)
        ELSE LET i == insert(r.droplets, ds[a.old_id])
             IN  IF i.ok THEN i ELSE Panic(ds)

execute_update(g, ds, a, env) ==
    LET r == remove(ds, a.old_id)
    IN  IF ~r.ok THEN Panic(ds)
        ELSE LET d == [ds[a.old_id] EXCEPT !.id = a.new_id]
                 i == insert(r.droplets, d)
             IN  IF i.ok THEN i ELSE Panic(ds)

\* a variant of the MoveDroplet arm that measures the distance as the larger
\* of the two coordinate differences, so that it lets diagonal steps pass
execute_move_diagonal(g, ds, a, env) ==
    IF a.id \notin DOMAIN ds THEN Panic(ds)
    ELSE IF ~(Max2(Abs(ds[a.id].location.y - a.location.y),
                   Abs(ds[a.id].location.x - a.location.x)) <= 1)
         THEN Panic(ds)
         ELSE Ok([ds EXCEPT ![a.id].location = a.location])

execute_move(g, ds, a, env) ==
    IF a.id \notin DOMAIN ds THEN Panic(ds)   \* get_mut: expect(..)
    ELSE IF ~(distance_to(ds[a.id].location, a.location) <= 1)
         THEN Panic(ds)
         ELSE Ok([ds EXCEPT ![a.id].location = a.location])

execute_tick(g, ds, a, env) ==
    IF IsSome(get_collision(g, ds)) THEN Panic(ds) ELSE Ok(ds)

execute(g, ds, a, env) ==
    CASE a.kind = "AddDroplet"    -> execute_add(g, ds, a, env)
      [] a.kind = "RemoveDroplet" -> execute_remove(g, ds, a, env)
      [] a.kind = "Mix"           -> execute_mix(g, ds, a, env)
      [] a.kind = "Split"         -> execute_split(g, ds, a, env)
      [] a.kind = "UpdateDroplet" -> execute_update(g, ds, a, env)
      [] a.kind = "MoveDroplet"   -> execute_move(g, ds, a, env)
      [] a.kind = "Tick"          -> execute_tick(g, ds, a, env)
      [] a.kind = "Ping"          -> Ok(ds)

(***************************************************************************)
(* Finite maps (util::collections::Map) with get / insert.                 *)
(***************************************************************************)
MapPut(f, k, v) == (k :> v) @@ f

(***************************************************************************)
(* MinHeap<Cost, Node>: a priority queue keyed by cost.  Entries of equal  *)
(* cost leave in an order the heap's layout decides; the model keeps them  *)
(* in insertion order and takes the oldest ("fifo") or the newest          *)
(* ("lifo") of the cheapest entries.                                       *)
(***************************************************************************)
HeapNew == <<>>

HeapPush(heap, cost, node) == Append(heap, <<cost, node>>)

HeapIsEmpty(heap) == heap = <<>>

HeapMinCost(heap) ==
    LET costs == { heap[i][1] : i \in DOMAIN heap }
    IN  CHOOSE c \in costs : \A d \in costs : c <= d

\* the index of the entry pop() takes
HeapPopIndex(heap, policy) ==
    LET m == HeapMinCost(heap)
        at == { i \in DOMAIN heap : heap[i][1] = m }
    IN  IF policy = "fifo"
        THEN CHOOSE i \in at : \A j \in at : i <= j
        ELSE CHOOSE i \in at : \A j \in at : i >= j

HeapRemove(heap, i) ==
    SubSeq(heap, 1, i - 1) \o SubSeq(heap, i + 1, Len(heap))

(***************************************************************************)
(* route.rs: Node, AvoidanceSet.                                           *)
(***************************************************************************)
Node(location, time) == [location |-> location, time |-> time]

\* AvoidanceSet::default()
AvoidanceSetDefault ==
    [max_time |-> 0, present |-> {}, finals |-> [l \in {} |-> 0]]

collides(av, node) == node \in av.present

collides_with_final(av, node) ==
    IF node.location \in DOMAIN av.finals
    THEN node.time >= av.finals[node.location]
    ELSE FALSE

\* AvoidanceSet::filter, on a NextVec of <<cost, node>>
filter(av, vec) ==
    LET keep(e) == ~collides(av, e[2]) /\ ~collides_with_final(av, e[2])
    IN  SelectSeq(vec, keep)

\* (node.time..self.max_time): the upper end is excluded
would_finally_collide(av, node) ==
    \E t \in node.time..(av.max_time - 1) :
        collides(av, Node(node.location, t))

\* the nodes avoid_node adds to present
avoid_node(g, node, dimensions) ==
    { Node(loc, node.time + t) :
        loc \in neighbors_dimensions(g, node.location, dimensions),
        t \in { u \in -1..1 : node.time + u >= 0 } }

RECURSIVE FinalsInsertAll(_, _, _)
FinalsInsertAll(finals, locs, t) ==
    IF locs = {} THEN finals
    ELSE LET l == CHOOSE x \in locs : TRUE
         IN  FinalsInsertAll(MapPut(finals, l, t), locs \ {l}, t)

avoid_path(av, path, g, droplet_dimensions) ==
    LET lastIdx == Len(path) - 1
    IN  [present |->
            av.present \cup
            UNION { avoid_node(g, Node(path[i], i - 1), droplet_dimensions) :
                    i \in DOMAIN path },
         finals |->
            FinalsInsertAll(av.finals,
                neighbors_dimensions(g, path[Len(path)], droplet_dimensions),
                lastIdx),
         max_time |-> Max2(av.max_time, lastIdx)]

\* Grid::neighbors4 as the Vec it returns
NEIGHBORS_4 == << Loc(-1, 0), Loc(1, 0), Loc(0, -1), Loc(0, 1) >>

neighbors4_vec(g, loc) ==
    LET all == [i \in 1..4 |->
                  Loc(loc.y + NEIGHBORS_4[i].y, loc.x + NEIGHBORS_4[i].x)]
        valid(l) == l \in g.cells
    IN  SelectSeq(all, valid)

MoveCost == 100
WaitCost == 1

\* Node::expand
\* a variant of expand in which waiting costs nothing
expand_free_wait(node, g) ==
    LET ns == neighbors4_vec(g, node.location)
    IN  [i \in 1..Len(ns) |-> <<MoveCost, Node(ns[i], node.time + 1)>>]
        \o << <<0, Node(node.location, node.time + 1)>> >>

expand(node, g) ==
    LET ns == neighbors4_vec(g, node.location)
    IN  [i \in 1..Len(ns) |-> <<MoveCost, Node(ns[i], node.time + 1)>>]
        \o << <<WaitCost, Node(node.location, node.time + 1)>> >>

(***************************************************************************)
(* route.rs: build_path, route_one, route_many.                            *)
(***************************************************************************)
RECURSIVE build_path_rev(_, _)
\* the locations from end_node back to the node that has no predecessor
build_path_rev(came_from, current) ==
    IF current \in DOMAIN came_from
    THEN <<current.location>> \o build_path_rev(came_from, came_from[current])
    ELSE <<current.location>>

Reverse(s) == [i \in 1..Len(s) |-> s[Len(s) + 1 - i]]

\* a variant of build_path that leaves out the final reverse()
build_path_unreversed(came_from, end_node) ==
    build_path_rev(came_from, end_node)

build_path(came_from, end_node) == Reverse(build_path_rev(came_from, end_node))

destination_or_location(droplet) ==
    IF IsSome(droplet.destination) THEN Unwrap(droplet.destination)
    ELSE droplet.location

\* the closures route_many hands to route_one
next_fn(av, g, node) == filter(av, expand(node, g))

\* a variant of the goal closure that lets droplets of collision group 1 park
\* without looking at the reservations
done_fn_grouped(av, droplet, node) ==
    /\ node.location = destination_or_location(droplet)
    /\ droplet.collision_group = 1 \/ ~would_finally_collide(av, node)

done_fn(av, droplet, node) ==
    /\ node.location = destination_or_location(droplet)
    /\ ~would_finally_collide(av, node)

heuristic(droplet, node) ==
    distance_to(destination_or_location(droplet), node.location)

\* the body of route_one's for loop, for the entries of nexts from index i on
RECURSIVE relax(_, _, _, _, _)
relax(st, droplet, node, nexts, i) ==
    IF i > Len(nexts) THEN st
    ELSE LET edge_cost == nexts[i][1]
             next == nexts[i][2]
         IN  IF next \in st.done
             THEN relax(st, droplet, node, nexts, i + 1)
             ELSE
             LET node_cost == st.best_so_far[node]
                 cand == node_cost + edge_cost
                 known == next \in DOMAIN st.best_so_far
                 better == ~known \/ cand < st.best_so_far[next]
                 next_cost == IF better THEN cand ELSE st.best_so_far[next]
                 st2 == [st EXCEPT
                     !.best_so_far =
                         IF better THEN MapPut(@, next, cand) ELSE @,
                     !.came_from =
                         IF better THEN MapPut(@, next, node) ELSE @,
                     !.todo = HeapPush(@, next_cost + heuristic(droplet, next),
                                       next)]
             IN  relax(st2, droplet, node, nexts, i + 1)

\* one round of route_one's while loop; st.returned once it has returned
search_step(st, droplet, max_time, av, g, policy) ==
    IF HeapIsEmpty(st.todo)
    THEN [st EXCEPT !.returned = TRUE, !.value = None]
    ELSE LET i == HeapPopIndex(st.todo, policy)
             node == st.todo[i][2]
             popped == [st EXCEPT !.todo = HeapRemove(@, i)]
         IN  IF done_fn(av, droplet, node)
             THEN [popped EXCEPT
                      !.returned = TRUE,
                      !.goal = Some(node),
                      !.value = Some(build_path(st.came_from, node))]
             ELSE IF node \in st.done \/ node.time > max_time
             THEN [popped EXCEPT !.done = @ \cup {node}]
             ELSE relax([popped EXCEPT !.done = @ \cup {node},
                                       !.expanded = @ \cup {node}],
                        droplet, node, next_fn(av, g, node), 1)

\* the while loop: at most n rounds of it.  The rounds are split in halves
\* so that evaluating a long loop does not nest deeply.
RECURSIVE search(_, _, _, _, _, _, _)
search(st, n, droplet, max_time, av, g, policy) ==
    IF st.returned \/ n = 0 THEN st
    ELSE IF n = 1 THEN search_step(st, droplet, max_time, av, g, policy)
    ELSE LET half == search(st, n \div 2, droplet, max_time, av, g, policy)
         IN  search(half, n - (n \div 2), droplet, max_time, av, g, policy)

\* Every round pops one heap entry, and entries are pushed only when a node
\* is expanded: at most once per node of time <= max_time, at most five
\* entries each time.  So the loop ends within this many rounds.
MaxRounds(max_time, g) ==
    2 + 5 * Cardinality(locations(g)) * (max_time + 1)

\* route_one's locals when it returns: goal is the node done_fn accepted,
\* expanded the nodes next_fn was called on
route_one_search(droplet, max_time, av, g, policy) ==
    LET start_node == Node(droplet.location, 0)
    IN  search([todo |-> HeapPush(HeapNew, 0, start_node),
                best_so_far |-> (start_node :> 0),
                came_from |-> [n \in {} |-> start_node],
                done |-> {},
                expanded |-> {},
                goal |-> None,
                returned |-> FALSE,
                value |-> None],
               MaxRounds(max_time, g),
               droplet, max_time, av, g, policy)

route_one(droplet, max_time, av, g, policy) ==
    route_one_search(droplet, max_time, av, g, policy).value

\* a variant of line 196 that adds the lengths up
next_max_t_sum(max_t, path) == max_t + Len(path)

\* max_t = max_t.max(path.len() as Time)
next_max_t(max_t, path) == Max2(max_t, Len(path))

\* route_many's for loop over the droplets from index k on
RECURSIVE route_many_from(_, _, _, _, _, _, _)
route_many_from(ds, order, k, g, policy, acc, num_cells) ==
    IF k > Len(order) THEN Some(acc.paths)
    ELSE LET id == order[k]
             droplet == ds[id]
             res == route_one(droplet, num_cells + acc.max_t, acc.av_set, g,
                              policy)
         IN  IF res = None THEN None
             ELSE LET path == Unwrap(res)
                  IN  route_many_from(ds, order, k + 1, g, policy,
                          [max_t |-> next_max_t(acc.max_t, path),
                           av_set |-> avoid_path(acc.av_set, path, g,
                                                 droplet.dimensions),
                           paths |-> MapPut(acc.paths, id, path)],
                          num_cells)

\* route_many: order is the shuffled droplet slice (by id)
route_many(ds, order, g, policy) ==
    route_many_from(ds, order, 1, g, policy,
        [max_t |-> 0, av_set |-> AvoidanceSetDefault,
         paths |-> [i \in {} |-> <<>>]],
        Cardinality(locations(g)))

\* no route_many call in progress
NoAttempt ==
    [order |-> <<>>, k |-> 0, max_t |-> 0, av_set |-> AvoidanceSetDefault,
     paths |-> [i \in {} |-> <<>>], horizon |-> 0, before |-> AvoidanceSetDefault,
     expanded |-> {}, goal |-> None]

(***************************************************************************)
(* route.rs: GridView::route and paths_to_actions.                         *)
(***************************************************************************)
RECURSIVE Shuffles(_)
\* the orders rng.shuffle may leave the droplets in
Shuffles(S) ==
    IF S = {} THEN { <<>> }
    ELSE UNION { { <<x>> \o p : p \in Shuffles(S \ {x}) } : x \in S }

\* for i in 1..50: the upper end is excluded
RouteRangeEnd == 50
RouteIterations == 1..(RouteRangeEnd - 1)

\* what route() may return, and the number of route_many calls it made:
\* the outcome of the i-th shuffled order, every earlier order having failed
route_returns(ds, g, policy) ==
    LET outcomes == { [order |-> o, paths |-> route_many(ds, o, g, policy)] :
                      o \in Shuffles(DOMAIN ds) }
        failed == { oc \in outcomes : oc.paths = None }
        found == outcomes \ failed
        lastIter == CHOOSE i \in RouteIterations :
                        \A j \in RouteIterations : j <= i
    IN  { [result |-> oc.paths, attempts |-> i] :
            oc \in found,
            i \in { j \in RouteIterations : j = 1 \/ failed # {} } }
        \cup
        { [result |-> None, attempts |-> lastIter] : oc \in failed }

SeqMax(lens) ==
    IF lens = {} THEN 0 ELSE CHOOSE m \in lens : \A l \in lens : l <= m

RECURSIVE SetToSeq(_)
\* the ids of a map in the order paths.iter() yields them (ascending here)
SetToSeq(S) ==
    IF S = {} THEN <<>>
    ELSE LET m == CHOOSE x \in S : \A y \in S : x <= y
         IN  <<m>> \o SetToSeq(S \ {m})

\* the actions of tick i (0-based): a MoveDroplet per path that reaches
\* index i, then a Tick
\* a variant of the loop body of paths_to_actions that stops one entry short
tick_actions_short(paths, i) ==
    LET ids == SetToSeq({ id \in DOMAIN paths : i + 1 < Len(paths[id]) })
    IN  [k \in 1..Len(ids) |-> MoveDropletA(ids[k], paths[ids[k]][i + 1])]
        \o <<TickA>>

\* a variant that keeps moving a droplet whose path has ended to its last cell
tick_actions_padded(paths, i) ==
    LET ids == SetToSeq({ id \in DOMAIN paths : Len(paths[id]) > 0 })
        at(id) == IF i < Len(paths[id]) THEN i + 1 ELSE Len(paths[id])
    IN  [k \in 1..Len(ids) |-> MoveDropletA(ids[k], paths[ids[k]][at(ids[k])])]
        \o <<TickA>>

tick_actions(paths, i) ==
    LET ids == SetToSeq({ id \in DOMAIN paths : i < Len(paths[id]) })
    IN  [k \in 1..Len(ids) |-> MoveDropletA(ids[k], paths[ids[k]][i + 1])]
        \o <<TickA>>

RECURSIVE paths_to_actions_from(_, _, _)
paths_to_actions_from(paths, i, max_len) ==
    IF i >= max_len THEN <<>>
    ELSE tick_actions(paths, i) \o paths_to_actions_from(paths, i + 1, max_len)

paths_to_actions(paths) ==
    paths_to_actions_from(paths, 0,
        SeqMax({ Len(paths[id]) : id \in DOMAIN paths }))

(***************************************************************************)
(* The manager as a state machine: one action per Action variant.          *)
(***************************************************************************)
EmptyMap == [i \in {} |-> None]
NoAction == [kind |-> "none"]

(***************************************************************************)
(* The random generator of a manager.  What a generator yields is a        *)
(* function of its seed and of how much has been drawn from it; which      *)
(* function is left open (stream).  Where one manager is looked at alone,  *)
(* each sample is left open at the draw instead and rng is not followed.   *)
(***************************************************************************)
Seeds == {0, 1}

\* a variant of new_rng that seeds the generator from the environment
new_rng_from_entropy(entropy) == [seed |-> entropy, pos |-> 0]

\* GridView::new: IsaacRng::new_from_u64(0), whatever the environment
new_rng(entropy) == [seed |-> 0, pos |-> 0]

\* self.rng.sample(dist) for dist = Normal(0, stdev): the value and the
\* generator afterwards
rng_sample(str, r, stdev) ==
    [value |-> IF stdev = 0 THEN 0 ELSE str[r.seed][r.pos + 1],
     rng |-> [r EXCEPT !.pos = @ + 1]]

NoStream == [seed \in Seeds |-> <<>>]
NoTwin ==
    /\ rng = new_rng(0)
    /\ twin = EmptyMap
    /\ twin_rng = new_rng(0)
    /\ twin_result = None
    /\ stream = NoStream

\* the locations and dimensions the actions of the model may name: the
\* manager grid and Margin columns to its right, which are not cells
ActionLocations ==
    { Loc(y, x) : y \in 0..(ManagerHeight - 1),
                  x \in 0..(ManagerWidth - 1 + Margin) }
ActionDimensions == { Loc(1, 1), Loc(1, 2) }
AddVolumes == { 0, 2 }

\* rng.sample(dist): Normal(0, 0) yields 0
Samples(stdev) == IF stdev = 0 THEN {0} ELSE (-MaxSample)..MaxSample

InBounds(ds) ==
    /\ Cardinality(DOMAIN ds) <= MaxLive
    /\ \A i \in DOMAIN ds : Abs(ds[i].volume) <= MaxVolume

\* whether execute panics never depends on env, so a panicking action is
\* taken with one env only
DefaultEnv == Env(0, 1, 1)
Envs(a, all) ==
    IF execute(grid, droplets, a, DefaultEnv).ok THEN all ELSE {DefaultEnv}

\* execute(action) on the manager
Do(a, env) ==
    LET r == execute(grid, droplets, a, env)
    IN  /\ r.ok => InBounds(r.droplets)
        /\ droplets' = r.droplets
        /\ panicked' = ~r.ok
        /\ last' = a
        /\ UNCHANGED <<grid, split_error_stdev>>
        /\ UNCHANGED routerVars
        /\ UNCHANGED <<twinVars, attemptVars>>

AddDroplet ==
    /\ ~panicked
    /\ \E id \in Ids, location \in ActionLocations,
          dimensions \in ActionDimensions, volume \in AddVolumes :
        LET a == AddDropletA(id, location, dimensions, volume)
        IN  \E env \in Envs(a, { Env(0, cg, cg) : cg \in Groups }) :
                Do(a, env)

RemoveDroplet ==
    /\ ~panicked
    /\ \E id \in Ids : Do(RemoveDropletA(id), DefaultEnv)

Mix ==
    /\ ~panicked
    /\ \E in0 \in Ids, in1 \in Ids, out \in Ids :
        LET a == MixA(in0, in1, out)
        IN  \E env \in Envs(a, { Env(0, cg, cg) : cg \in Groups }) :
                Do(a, env)

Split ==
    /\ ~panicked
    /\ \E inp \in Ids, out0 \in Ids, out1 \in Ids :
        LET a == SplitA(inp, out0, out1)
        IN  /\ inp \in DOMAIN droplets => droplets[inp].volume % 2 = 0
            /\ \E env \in Envs(a, { Env(s, cg0, cg1) :
                                      s \in Samples(split_error_stdev),
                                      cg0 \in Groups, cg1 \in Groups }) :
                    Do(a, env)

UpdateDroplet ==
    /\ ~panicked
    /\ \E old_id \in Ids, new_id \in Ids :
        Do(UpdateDropletA(old_id, new_id), DefaultEnv)

MoveDroplet ==
    /\ ~panicked
    /\ \E id \in Ids, location \in ActionLocations :
        Do(MoveDropletA(id, location), DefaultEnv)

Tick ==
    /\ ~panicked
    /\ Do(TickA, DefaultEnv)

Ping ==
    /\ ~panicked
    /\ Do(PingA, DefaultEnv)

\* GridView::new
Init ==
    /\ grid = FullGrid(ManagerHeight, ManagerWidth)
    /\ droplets = EmptyMap
    /\ split_error_stdev \in {0, 1}
    /\ panicked = FALSE
    /\ last = NoAction
    /\ pc = "manager"
    /\ tie = "fifo"
    /\ start = EmptyMap
    /\ result = None
    /\ attempts = 0
    /\ acts = <<>>
    /\ NoTwin
    /\ attempt = NoAttempt

Next ==
    \/ AddDroplet
    \/ RemoveDroplet
    \/ Mix
    \/ Split
    \/ UpdateDroplet
    \/ MoveDroplet
    \/ Tick
    \/ Ping

Spec == Init /\ [][Next]_vars

(***************************************************************************)
(* The router's caller (as in the test route_connected): a manager with    *)
(* droplets placed on it, route(), paths_to_actions, and execute on every  *)
(* action of the stream.                                                   *)
(***************************************************************************)
\* arb_droplet: volume 1.0 and a destination (None is also covered)
MkDroplet(id, location, dimensions, destination, cg) ==
    [id |-> id, location |-> location, dimensions |-> dimensions,
     volume |-> 1, destination |-> destination, collision_group |-> cg]

Options(S) == { Some(x) : x \in S } \cup { None }

\* a family of routing problems: a grid and, per droplet, the places it may
\* start at and be destined to
Family(g, counts, starts, dests, dims) ==
    [grid |-> g, counts |-> counts, starts |-> starts, dests |-> dests,
     dims |-> dims]

\* fully connected rectangles with at most one droplet, anywhere to anywhere
RectFamily(h, w) ==
    Family(FullGrid(h, w), {0, 1}, <<Rect(h, w)>>,
           <<Options(Rect(h, w))>>, <<{Loc(1, 1)}>>)

\* two droplets between the corners of a 3 x 3 grid
Corners3 == { Loc(0, 0), Loc(0, 2), Loc(2, 0), Loc(2, 2) }
CornerFamily ==
    Family(FullGrid(3, 3), {2}, <<Corners3, Corners3>>,
           <<Options({Loc(2, 2), Loc(0, 2)}), Options({Loc(0, 0), Loc(2, 2)})>>,
           <<{Loc(1, 1)}, {Loc(1, 1)}>>)

\* a single row of six cells: a corridor
CorridorGrid == MkGrid(1, 6, { Loc(0, x) : x \in 0..5 })
CorridorFamily ==
    Family(CorridorGrid, {2},
           <<{Loc(0, 0), Loc(0, 1)}, {Loc(0, 3), Loc(0, 5)}>>,
           <<{Some(Loc(0, 1)), Some(Loc(0, 5))},
             {Some(Loc(0, 0)), Some(Loc(0, 3))}>>,
           <<{Loc(1, 1)}, {Loc(1, 1), Loc(1, 2)}>>)

\* a row of seven cells with a side branch (1,2) - (1,1) - (2,1)
ForkGrid ==
    MkGrid(3, 7, { Loc(0, x) : x \in 0..6 }
                 \cup { Loc(1, 1), Loc(1, 2), Loc(2, 1) })
ForkFamily ==
    Family(ForkGrid, {3},
           <<{Loc(0, 0)}, {Loc(0, 6), Loc(0, 5)}, {Loc(1, 2)}>>,
           <<Options({Loc(0, 0)}), {Some(Loc(0, 2)), Some(Loc(0, 3))},
             {Some(Loc(2, 1))}>>,
           <<{Loc(1, 1)}, {Loc(1, 1)}, {Loc(1, 1)}>>)

\* two droplets on a fully connected 6 x 6 rectangle, the smallest square
\* on which two droplets count as uncrowded
OpenFamily ==
    Family(FullGrid(6, 6), {2},
           <<{Loc(0, 0)}, {Loc(0, 2), Loc(5, 5)}>>,
           <<{Some(Loc(0, 5)), Some(Loc(2, 0))},
             {Some(Loc(0, 0)), Some(Loc(5, 0))}>>,
           <<{Loc(1, 1)}, {Loc(1, 1)}>>)

Families ==
    { RectFamily(1, 1), RectFamily(1, 3), RectFamily(2, 2),
      RectFamily(2, 3), RectFamily(3, 3),
      CornerFamily, CorridorFamily, ForkFamily, OpenFamily }

\* collision groups: every droplet its own, or all in one
GroupModes == { "own", "shared" }
GroupOf(mode, i) == IF mode = "own" THEN i ELSE 1

Candidates(fam, i, mode) ==
    { MkDroplet(i, l, dm, d, GroupOf(mode, i)) :
        l \in fam.starts[i], dm \in fam.dims[i], d \in fam.dests[i] }

DropletMaps(fam, n, mode) ==
    CASE n = 0 -> { EmptyMap }
      [] n = 1 -> { (1 :> d1) : d1 \in Candidates(fam, 1, mode) }
      [] n = 2 -> { (1 :> d1) @@ (2 :> d2) :
                      d1 \in Candidates(fam, 1, mode),
                      d2 \in Candidates(fam, 2, mode) }
      [] n = 3 -> { (1 :> d1) @@ (2 :> d2) @@ (3 :> d3) :
                      d1 \in Candidates(fam, 1, mode),
                      d2 \in Candidates(fam, 2, mode),
                      d3 \in Candidates(fam, 3, mode) }

InitRoute ==
    /\ \E fam \in Families : \E n \in fam.counts : \E mode \in GroupModes :
        /\ grid = fam.grid
        /\ droplets \in DropletMaps(fam, n, mode)
    /\ split_error_stdev = 0
    /\ panicked = FALSE
    /\ last = NoAction
    /\ pc = "start"
    /\ tie \in { "fifo", "lifo" }
    /\ start = droplets
    /\ result = None
    /\ attempts = 0
    /\ acts = <<>>
    /\ NoTwin
    /\ attempt = NoAttempt

\* gv.route()
Route ==
    /\ pc = "start"
    /\ \E r \in route_returns(droplets, grid, tie) :
        /\ result' = r.result
        /\ attempts' = r.attempts
    /\ pc' = "routed"
    /\ UNCHANGED <<tie, start, acts>>
    /\ UNCHANGED managerVars
    /\ UNCHANGED <<twinVars, attemptVars>>

\* paths_to_actions(route_result.unwrap()); route's loop counter is gone
Translate ==
    /\ pc = "routed"
    /\ IsSome(result)
    /\ acts' = paths_to_actions(Unwrap(result))
    /\ pc' = IF acts' = <<>> THEN "done" ELSE "executing"
    /\ attempts' = 0
    /\ UNCHANGED <<tie, start, result>>
    /\ UNCHANGED managerVars
    /\ UNCHANGED <<twinVars, attemptVars>>

\* gv.execute(a) for the next action of the stream
Execute ==
    /\ pc = "executing"
    /\ ~panicked
    /\ LET r == execute(grid, droplets, Head(acts), DefaultEnv)
       IN  /\ droplets' = r.droplets
           /\ panicked' = ~r.ok
    /\ last' = Head(acts)
    /\ acts' = Tail(acts)
    /\ pc' = IF acts' = <<>> THEN "done" ELSE "executing"
    /\ UNCHANGED <<grid, split_error_stdev, tie, start, result, attempts>>
    /\ UNCHANGED <<twinVars, attemptVars>>

NextRoute ==
    \/ Route
    \/ Translate
    \/ Execute

RouteSpec == InitRoute /\ [][NextRoute]_vars

(***************************************************************************)
(* A single Split on a manager that holds one droplet, over a range of     *)
(* volumes and samples wide enough for the arithmetic to round.            *)
(***************************************************************************)
WideVolumes == { 2 * k : k \in 0..MaxHalf }
WideSamples(stdev) == IF stdev = 0 THEN {0} ELSE (-MaxHalf)..MaxHalf

InitSplit ==
    /\ grid = FullGrid(ManagerHeight, ManagerWidth)
    /\ \E location \in grid.cells, dimensions \in ActionDimensions,
          volume \in WideVolumes, cg \in Groups :
          droplets = (1 :> DropletNew(1, volume, location, dimensions, cg))
    /\ split_error_stdev \in {0, 1}
    /\ panicked = FALSE
    /\ last = NoAction
    /\ pc = "split"
    /\ tie = "fifo"
    /\ start = droplets
    /\ result = None
    /\ attempts = 0
    /\ acts = <<>>
    /\ NoTwin
    /\ attempt = NoAttempt

\* execute(Split{inp, out0, out1}) on that manager
SplitWide ==
    /\ pc = "split"
    /\ \E inp \in Ids, out0 \in Ids, out1 \in Ids :
        LET a == SplitA(inp, out0, out1)
        IN  \E env \in Envs(a, { Env(s, cg, cg) :
                                  s \in WideSamples(split_error_stdev),
                                  cg \in Groups }) :
            LET r == execute(grid, droplets, a, env)
            IN  /\ droplets' = r.droplets
                /\ panicked' = ~r.ok
                /\ last' = a
    /\ pc' = "done"
    /\ UNCHANGED <<grid, split_error_stdev, tie, start, result, attempts, acts>>
    /\ UNCHANGED <<twinVars, attemptVars>>

NextSplit == SplitWide

SplitSpec == InitSplit /\ [][NextSplit]_vars

(***************************************************************************)
(* One call of execute on a manager that holds up to three droplets, on a  *)
(* 2 x 2 grid: every action on every such manager.                         *)
(***************************************************************************)
StepIds == 1..(MaxId + 1)
StepGrid == FullGrid(2, 2)
StepVolumes == { 1, 2 }

StepDroplets(id) ==
    { DropletNew(id, volume, location, dimensions, id) :
        volume \in StepVolumes, location \in StepGrid.cells,
        dimensions \in ActionDimensions }

\* the managers with the droplets of ids live
StepMaps(live) ==
    { ds \in [live -> UNION { StepDroplets(id) : id \in live }] :
        \A id \in live : ds[id].id = id }

InitStep ==
    /\ grid = StepGrid
    /\ \E live \in SUBSET StepIds : droplets \in StepMaps(live)
    /\ split_error_stdev \in {0, 1}
    /\ panicked = FALSE
    /\ last = NoAction
    /\ pc = "step"
    /\ tie = "fifo"
    /\ start = droplets
    /\ result = None
    /\ attempts = 0
    /\ acts = <<>>
    /\ NoTwin
    /\ attempt = NoAttempt

\* execute(action), once
DoOnce(a, env) ==
    LET r == execute(grid, droplets, a, env)
    IN  /\ droplets' = r.droplets
        /\ panicked' = ~r.ok
        /\ last' = a
        /\ pc' = "done"
        /\ UNCHANGED <<grid, split_error_stdev, tie, start, result,
                       attempts, acts>>
        /\ UNCHANGED <<twinVars, attemptVars>>

StepAddDroplet ==
    /\ pc = "step"
    /\ \E id \in StepIds, location \in StepGrid.cells,
          dimensions \in ActionDimensions, volume \in StepVolumes :
        DoOnce(AddDropletA(id, location, dimensions, volume),
               Env(0, id, id))

StepRemoveDroplet ==
    /\ pc = "step"
    /\ \E id \in StepIds : DoOnce(RemoveDropletA(id), DefaultEnv)

StepMix ==
    /\ pc = "step"
    /\ \E in0 \in StepIds, in1 \in StepIds, out \in StepIds :
        DoOnce(MixA(in0, in1, out), Env(0, out, out))

StepSplit ==
    /\ pc = "step"
    /\ \E inp \in StepIds, out0 \in StepIds, out1 \in StepIds :
        LET a == SplitA(inp, out0, out1)
        IN  /\ inp \in DOMAIN droplets => droplets[inp].volume % 2 = 0
            /\ \E env \in Envs(a, { Env(sample, out0, out1) :
                                      sample \in Samples(split_error_stdev) }) :
                    DoOnce(a, env)

StepUpdateDroplet ==
    /\ pc = "step"
    /\ \E old_id \in StepIds, new_id \in StepIds :
        DoOnce(UpdateDropletA(old_id, new_id), DefaultEnv)

StepMoveDroplet ==
    /\ pc = "step"
    /\ \E id \in StepIds, location \in StepGrid.cells :
        DoOnce(MoveDropletA(id, location), DefaultEnv)

StepTick ==
    /\ pc = "step"
    /\ DoOnce(TickA, DefaultEnv)

StepPing ==
    /\ pc = "step"
    /\ DoOnce(PingA, DefaultEnv)

NextStep ==
    \/ StepAddDroplet
    \/ StepRemoveDroplet
    \/ StepMix
    \/ StepSplit
    \/ StepUpdateDroplet
    \/ StepMoveDroplet
    \/ StepTick
    \/ StepPing

StepSpec == InitStep /\ [][NextStep]_vars

(***************************************************************************)
(* One route_many call, one droplet at a time.                             *)
(***************************************************************************)
\* route_many(&droplets, &self.grid) is entered with some shuffled order
InitAttempt ==
    /\ \E fam \in Families : \E n \in fam.counts : \E mode \in GroupModes :
        /\ grid = fam.grid
        /\ droplets \in DropletMaps(fam, n, mode)
    /\ split_error_stdev = 0
    /\ panicked = FALSE
    /\ last = NoAction
    /\ pc = "routing"
    /\ tie \in { "fifo", "lifo" }
    /\ start = droplets
    /\ result = None
    /\ attempts = 1
    /\ acts = <<>>
    /\ NoTwin
    /\ \E order \in Shuffles(DOMAIN droplets) :
          attempt = [NoAttempt EXCEPT !.order = order, !.k = 1]

\* the body of route_many's for loop for the droplet at index k: horizon is
\* the max_time it passes to route_one, before the avoidance set it
\* searched against
RouteOne ==
    /\ pc = "routing"
    /\ attempt.k <= Len(attempt.order)
    /\ LET id == attempt.order[attempt.k]
           droplet == droplets[id]
           horizon == Cardinality(locations(grid)) + attempt.max_t
       IN  \E st \in { route_one_search(droplet, horizon, attempt.av_set,
                                        grid, tie) } :
           IF st.value = None
           THEN /\ attempt' = [attempt EXCEPT
                                  !.horizon = horizon,
                                  !.before = attempt.av_set,
                                  !.expanded = st.expanded,
                                  !.goal = None]
                /\ pc' = "returned"
           ELSE \E path \in { Unwrap(st.value) } :
                    /\ attempt' = [attempt EXCEPT
                           !.k = @ + 1,
                           !.max_t = next_max_t(@, path),
                           !.av_set = avoid_path(@, path, grid,
                                                 droplet.dimensions),
                           !.paths = MapPut(@, id, path),
                           !.horizon = horizon,
                           !.before = attempt.av_set,
                           !.expanded = st.expanded,
                           !.goal = st.goal]
                    /\ pc' = pc
    /\ UNCHANGED <<tie, start, result, attempts, acts>>
    /\ UNCHANGED managerVars
    /\ UNCHANGED twinVars

\* Some(paths)
ReturnPaths ==
    /\ pc = "routing"
    /\ attempt.k > Len(attempt.order)
    /\ result' = Some(attempt.paths)
    /\ pc' = "returned"
    /\ UNCHANGED <<tie, start, attempts, acts>>
    /\ UNCHANGED managerVars
    /\ UNCHANGED twinVars
    /\ UNCHANGED attemptVars

NextAttempt ==
    \/ RouteOne
    \/ ReturnPaths

AttemptSpec == InitAttempt /\ [][NextAttempt]_vars

(***************************************************************************)
(* route_many on two snapshots that differ in the collision groups only.   *)
(***************************************************************************)
\* the droplets ds with the collision groups of the assignment groups
Regroup(ds, groups) ==
    [id \in DOMAIN ds |-> [ds[id] EXCEPT !.collision_group = groups[id]]]

InitGroups ==
    /\ \E fam \in Families : \E n \in fam.counts :
        /\ grid = fam.grid
        /\ droplets \in DropletMaps(fam, n, "own")
        /\ \E groups \in [DOMAIN droplets -> Groups] :
              twin = Regroup(droplets, groups)
    /\ split_error_stdev = 0
    /\ panicked = FALSE
    /\ last = NoAction
    /\ pc = "routing"
    /\ tie \in { "fifo", "lifo" }
    /\ start = droplets
    /\ result = None
    /\ attempts = 1
    /\ acts = <<>>
    /\ rng = new_rng(0)
    /\ twin_rng = new_rng(0)
    /\ twin_result = None
    /\ stream = NoStream
    /\ \E order \in Shuffles(DOMAIN droplets) :
          attempt = [NoAttempt EXCEPT !.order = order, !.k = 1]

\* route_many(&droplets, &grid) on each snapshot, in the same order
RouteBoth ==
    /\ pc = "routing"
    /\ result' = route_many(droplets, attempt.order, grid, tie)
    /\ twin_result' = route_many(twin, attempt.order, grid, tie)
    /\ pc' = "compared"
    /\ UNCHANGED <<tie, start, attempts, acts>>
    /\ UNCHANGED managerVars
    /\ UNCHANGED <<rng, twin, twin_rng, stream>>
    /\ UNCHANGED attemptVars

NextGroups == RouteBoth

GroupSpec == InitGroups /\ [][NextGroups]_vars

(***************************************************************************)
(* paths_to_actions on its own, over every small map of paths.             *)
(***************************************************************************)
PathLocations == { Loc(0, 0), Loc(0, 1) }
PathsUpTo(n) == UNION { [1..k -> PathLocations] : k \in 0..n }
PathMaps ==
    UNION { [ids -> PathsUpTo(MaxPathLen)] : ids \in SUBSET StepIds }

InitPaths ==
    /\ grid = FullGrid(ManagerHeight, ManagerWidth)
    /\ droplets = EmptyMap
    /\ split_error_stdev = 0
    /\ panicked = FALSE
    /\ last = NoAction
    /\ pc = "routed"
    /\ tie = "fifo"
    /\ start = EmptyMap
    /\ result \in { Some(paths) : paths \in PathMaps }
    /\ attempts = 0
    /\ acts = <<>>
    /\ NoTwin
    /\ attempt = NoAttempt

NextPaths == Translate

PathsSpec == InitPaths /\ [][NextPaths]_vars

(***************************************************************************)
(* Two managers created alike and fed the same actions.                    *)
(***************************************************************************)
TwinSamples == { -1, 1 }
Streams == [Seeds -> [1..MaxDraws -> TwinSamples]]
TwinLocations == { Loc(0, 0), Loc(0, 1) }

TwinActions ==
    { AddDropletA(id, location, Loc(1, 1), 2) :
        id \in Ids, location \in TwinLocations }
    \cup { RemoveDropletA(id) : id \in Ids }
    \cup { MixA(in0, in1, out) : in0 \in Ids, in1 \in Ids, out \in Ids }
    \cup { SplitA(inp, out0, out1) : inp \in Ids, out0 \in Ids, out1 \in Ids }
    \cup { UpdateDropletA(old_id, new_id) : old_id \in Ids, new_id \in Ids }
    \cup { MoveDropletA(id, location) : id \in Ids, location \in TwinLocations }
    \cup { TickA, PingA }

\* GridView::new(grid, opts), twice; the environments may differ
InitTwin ==
    /\ grid = FullGrid(ManagerHeight, ManagerWidth)
    /\ droplets = EmptyMap
    /\ twin = EmptyMap
    /\ split_error_stdev \in {0, 1}
    /\ \E e1 \in Seeds, e2 \in Seeds :
          /\ rng = new_rng(e1)
          /\ twin_rng = new_rng(e2)
    /\ stream \in Streams
    /\ twin_result = None
    /\ attempt = NoAttempt
    /\ panicked = FALSE
    /\ last = NoAction
    /\ pc = "twin"
    /\ tie = "fifo"
    /\ start = EmptyMap
    /\ result = None
    /\ attempts = 0
    /\ acts = <<>>

\* the Split arm draws once it has removed its input
Draws(ds, a) == a.kind = "Split" /\ a.inp \in DOMAIN ds

\* execute(a) on a manager with droplets ds and generator r, whose new
\* droplets get the collision group cg: the result and the generator after
TwinExecute(ds, r, a, cg) ==
    LET s == rng_sample(stream, r, split_error_stdev)
    IN  IF Draws(ds, a)
        THEN [res |-> execute(grid, ds, a, Env(s.value, cg, cg)), rng |-> s.rng]
        ELSE [res |-> execute(grid, ds, a, Env(0, cg, cg)), rng |-> r]

\* gv1.execute(a); gv2.execute(a)
ExecuteBoth ==
    /\ pc = "twin"
    /\ ~panicked
    /\ \E a \in TwinActions, cg \in Groups :
        /\ Draws(droplets, a) =>
              /\ rng.pos < MaxDraws
              /\ droplets[a.inp].volume % 2 = 0
        /\ Draws(twin, a) =>
              /\ twin_rng.pos < MaxDraws
              /\ twin[a.inp].volume % 2 = 0
        /\ LET e1 == TwinExecute(droplets, rng, a, cg)
               e2 == TwinExecute(twin, twin_rng, a, cg)
           IN  /\ e1.res.ok => InBounds(e1.res.droplets)
               /\ e2.res.ok => InBounds(e2.res.droplets)
               /\ droplets' = e1.res.droplets
               /\ twin' = e2.res.droplets
               /\ rng' = e1.rng
               /\ twin_rng' = e2.rng
               /\ panicked' = (~e1.res.ok \/ ~e2.res.ok)
               /\ last' = a
    /\ UNCHANGED <<grid, split_error_stdev, stream, twin_result>>
    /\ UNCHANGED routerVars
    /\ UNCHANGED attemptVars

NextTwin == ExecuteBoth

TwinSpec == InitTwin /\ [][NextTwin]_vars

(***************************************************************************)
(* Properties of the router, checked under RouteSpec.                      *)
(***************************************************************************)
\* the problem handed to route() has no collision and no destination
\* collision (the filters of the test route_connected)
NoStartingCollision ==
    /\ get_collision(grid, start) = None
    /\ get_destination_collision(grid, start) = None

Routed == pc = "routed" /\ IsSome(result)
Paths == Unwrap(result)

\* C1: with no starting collision and no destination collision, executing
\* the action stream of a successful route never aborts at a Tick.
C1_NoCollisionAtTick ==
    (NoStartingCollision /\ pc \in {"executing", "done"})
        => ~(panicked /\ last = TickA)

\* C2: once the stream of a successful route has been executed to its end,
\* every droplet is at its destination, or where it started when it has
\* no destination.
C2_Reachability ==
    (pc = "done" /\ ~panicked) =>
        \A id \in DOMAIN start :
            /\ id \in DOMAIN droplets
            /\ droplets[id].location =
                  IF start[id].destination = None THEN start[id].location
                  ELSE start[id].destination[1]

C2_Witness ==
    /\ pc = "done" /\ ~panicked
    /\ Cardinality(DOMAIN start) >= 2
    /\ \A id \in DOMAIN start : droplets[id].location # start[id].location

\* C3: every returned path starts at the droplet's location and steps by a
\* Manhattan distance of at most 1, and no MoveDroplet of the stream is
\* refused by execute.
C3_SingleSteps ==
    /\ Routed =>
        \A id \in DOMAIN Paths :
            /\ Len(Paths[id]) >= 1
            /\ Paths[id][1] = droplets[id].location
            /\ \A i \in 1..(Len(Paths[id]) - 1) :
                  distance_to(Paths[id][i], Paths[id][i + 1]) <= 1
    /\ ~(panicked /\ last.kind = "MoveDroplet")

C3_Witness ==
    /\ pc = "executing" /\ ~panicked
    /\ last.kind = "MoveDroplet"
    /\ droplets[last.id].location = last.location
    /\ last.location # start[last.id].location
    /\ \E id \in DOMAIN Paths :
          \E i \in 1..(Len(Paths[id]) - 1) : Paths[id][i] = Paths[id][i + 1]

\* C4: on a connected grid, fewer than max(1, min(height, width) / 2)
\* droplets of dimensions (1,1) with destinations on the grid, without
\* starting or destination collision, always get routed: route returns a
\* result, with one path per droplet.
Uncrowded ==
    /\ is_connected(grid)
    /\ Cardinality(DOMAIN start)
          < Max2(1, Min2(grid.height, grid.width) \div 2)
    /\ \A id \in DOMAIN start :
          /\ start[id].dimensions = Loc(1, 1)
          /\ start[id].location \in grid.cells
          /\ IsSome(start[id].destination)
          /\ Unwrap(start[id].destination) \in grid.cells
    /\ NoStartingCollision

C4_AlwaysRouted ==
    (pc = "routed" /\ Uncrowded) =>
        /\ IsSome(result)
        /\ DOMAIN Paths = DOMAIN droplets

\* C5: a single droplet of dimensions (1,1) on a fully connected rectangle
\* gets a path from its location to its destination of length Manhattan
\* distance + 1.
Alone ==
    /\ grid.cells = Rect(grid.height, grid.width)
    /\ DOMAIN start = {1}
    /\ start[1].dimensions = Loc(1, 1)
    /\ IsSome(start[1].destination)

C5_ShortestPath ==
    (pc = "routed" /\ Alone) =>
        /\ IsSome(result)
        /\ DOMAIN Paths = {1}
        /\ Paths[1][1] = start[1].location
        /\ Paths[1][Len(Paths[1])] = Unwrap(start[1].destination)
        /\ Len(Paths[1]) =
              distance_to(start[1].location, Unwrap(start[1].destination)) + 1

C5_Witness ==
    /\ pc = "routed" /\ Alone
    /\ grid = FullGrid(3, 3)
    /\ start[1].location = Loc(0, 0)
    /\ start[1].destination = Some(Loc(2, 2))
    /\ IsSome(result)
    /\ Len(Paths[1]) = 5

\* C6: route returns the absent result only after 50 attempts have failed.
C6_FiftyAttempts ==
    (pc = "routed" /\ result = None) => attempts = 50

(***************************************************************************)
(* Properties of the manager, checked under Spec.                          *)
(***************************************************************************)
\* a pair of distinct droplets of different collision groups of which the
\* first's inflated footprint meets the second's raw footprint
Collides(ds, i, j) ==
    /\ i # j
    /\ ds[i].collision_group # ds[j].collision_group
    /\ neighbors_dimensions(grid, ds[i].location, ds[i].dimensions)
          \cap get_locations(ds[j].location, ds[j].dimensions) # {}

TickAccepted == last = TickA /\ ~panicked

\* C7: a Tick is fatal exactly when two distinct droplets of different
\* collision groups exist of which the inflated footprint of one meets the
\* raw footprint of the other (so droplets of one group never make it
\* fail), and an accepted Tick leaves the droplet map unchanged.
C7_TickFatalIff ==
    [][ (~panicked /\ last' = TickA) =>
           /\ panicked' <=>
                 \E i \in DOMAIN droplets, j \in DOMAIN droplets :
                     Collides(droplets, i, j)
           /\ ~panicked' => droplets' = droplets ]_vars

C7_Witness ==
    /\ TickAccepted
    /\ \E i \in DOMAIN droplets, j \in DOMAIN droplets :
          /\ i # j
          /\ droplets[i].collision_group = droplets[j].collision_group
          /\ droplets[i].location = droplets[j].location

\* the rectangle of a droplet grown by one cell on every side
InflatedRect(d) ==
    { Loc(y, x) :
        y \in (d.location.y - 1)..(d.location.y + d.dimensions.y),
        x \in (d.location.x - 1)..(d.location.x + d.dimensions.x) }

\* C8 as stated: after an accepted Tick the 1-cell-inflated rectangles of
\* two distinct droplets of different collision groups do not intersect.
C8_InflatedRectanglesDisjoint ==
    TickAccepted =>
        \A i \in DOMAIN droplets, j \in DOMAIN droplets :
            (i # j /\ droplets[i].collision_group # droplets[j].collision_group)
                => InflatedRect(droplets[i]) \cap InflatedRect(droplets[j]) = {}

\* C8: after an accepted Tick, for every two distinct droplets of different
\* collision groups the inflated footprint of one (its cells on the grid)
\* does not meet the raw footprint of the other.
C8_InflatedFootprintClear ==
    TickAccepted =>
        \A i \in DOMAIN droplets, j \in DOMAIN droplets :
            ~Collides(droplets, i, j)

C8_Witness ==
    /\ TickAccepted
    /\ \E i \in DOMAIN droplets, j \in DOMAIN droplets :
          /\ droplets[i].collision_group # droplets[j].collision_group
          /\ droplets[i].location \in grid.cells
          /\ droplets[j].location \in grid.cells
          /\ droplets[i].dimensions = Loc(1, 1)
          /\ droplets[j].location.y = droplets[i].location.y
          /\ droplets[j].location.x = droplets[i].location.x + 2

\* C9: after an accepted Tick the location of every droplet is a cell of
\* the grid.
C9_LocationsOnGrid ==
    TickAccepted =>
        \A id \in DOMAIN droplets : droplets[id].location \in grid.cells

\* C10: a Split of a droplet of volume V >= 0 gives both outputs a volume
\* in [0, V], and no droplet ever has a negative volume.
C10_SplitVolumesInRange ==
    /\ [][ ( /\ ~panicked /\ ~panicked'
             /\ last'.kind = "Split"
             /\ droplets' # droplets
             /\ last'.inp \in DOMAIN droplets
             /\ droplets[last'.inp].volume >= 0 ) =>
               \A out \in {last'.out0, last'.out1} :
                   /\ droplets'[out].volume >= 0
                   /\ droplets'[out].volume <= droplets[last'.inp].volume
         ]_vars
    /\ [](\A id \in DOMAIN droplets : droplets[id].volume >= 0)

\* a step that executes Split and is accepted
SplitAccepted ==
    /\ ~panicked /\ ~panicked'
    /\ last'.kind = "Split"
    /\ droplets' # droplets
    /\ last'.inp \in DOMAIN droplets

\* C11: an accepted Split removes the input and creates exactly the two
\* droplets out0 and out1, at the input's location with dimensions (1,1),
\* whose volumes sum to the input's volume whatever error is sampled; with
\* deviation 0 the two volumes are equal.
C11_SplitConserves ==
    [][ SplitAccepted =>
          LET a == last'
              d == droplets[a.inp]
          IN  /\ DOMAIN droplets' =
                    (DOMAIN droplets \ {a.inp}) \cup {a.out0, a.out1}
              /\ a.out0 # a.out1
              /\ \A out \in {a.out0, a.out1} :
                    /\ droplets'[out].id = out
                    /\ droplets'[out].location = d.location
                    /\ droplets'[out].dimensions = Loc(1, 1)
              /\ \A id \in DOMAIN droplets \ {a.inp} :
                    droplets'[id] = droplets[id]
              /\ droplets'[a.out0].volume + droplets'[a.out1].volume = d.volume
              /\ split_error_stdev = 0 =>
                    droplets'[a.out0].volume = droplets'[a.out1].volume
      ]_vars

(***************************************************************************)
(* Properties of one call of execute, checked under StepSpec: start is the *)
(* droplet map before the call, droplets the map after it.                 *)
(***************************************************************************)
Done(kind) == pc = "done" /\ last.kind = kind
Others(ids) == DOMAIN start \ ids
Untouched(ids) == \A id \in Others(ids) :
                      id \in DOMAIN droplets /\ droplets[id] = start[id]

\* Mix named two distinct live droplets
MixedTwo ==
    /\ Done("Mix")
    /\ {last.in0, last.in1} \subseteq DOMAIN start
    /\ last.in0 # last.in1

\* C12: Mix of two live droplets fails when their locations differ; when
\* they are equal (and the id out is free) it removes both and leaves one
\* droplet out there, of dimensions (1,1) and of volume the f64 sum of the
\* two volumes, every other droplet unchanged.
C12_Mix ==
    MixedTwo =>
        LET d0 == start[last.in0]
            d1 == start[last.in1]
        IN  /\ d0.location # d1.location => panicked
            /\ (d0.location = d1.location
                  /\ last.out \notin Others({last.in0, last.in1}))
                  => ~panicked
            /\ ~panicked =>
                  /\ DOMAIN droplets =
                        Others({last.in0, last.in1}) \cup {last.out}
                  /\ droplets[last.out].id = last.out
                  /\ droplets[last.out].location = d0.location
                  /\ droplets[last.out].location = d1.location
                  /\ droplets[last.out].dimensions = Loc(1, 1)
                  /\ droplets[last.out].volume = fl(d0.volume + d1.volume)
                  /\ Untouched({last.in0, last.in1})

C12_Witness ==
    /\ MixedTwo /\ ~panicked
    /\ Cardinality(DOMAIN start) = 3
    /\ start[last.in0].volume # start[last.in1].volume
    /\ start[last.in0].dimensions = Loc(1, 2)

\* MoveDroplet named a live droplet
MovedLive == Done("MoveDroplet") /\ last.id \in DOMAIN start

\* C13: MoveDroplet of a live droplet is fatal when the target is at a
\* Manhattan distance above 1 from its location; otherwise it returns and
\* the state differs only in that droplet's location, which is the target
\* (so nothing changes when the target is the location).
C13_MoveFrame ==
    MovedLive =>
        LET d == start[last.id]
            near == distance_to(d.location, last.location) <= 1
        IN  /\ panicked <=> ~near
            /\ near =>
                  /\ DOMAIN droplets = DOMAIN start
                  /\ droplets[last.id] =
                        [d EXCEPT !.location = last.location]
                  /\ Untouched({last.id})
                  /\ grid = StepGrid
            /\ last.location = d.location => droplets = start

C13_Witness ==
    /\ MovedLive /\ ~panicked
    /\ Cardinality(DOMAIN start) = 3
    /\ droplets[last.id].location = last.location
    /\ start[last.id].location # last.location

\* C14: execute is fatal on AddDroplet of a live id, on RemoveDroplet,
\* MoveDroplet, UpdateDroplet, Mix or Split naming an input that is not
\* live, and on Mix, Split or UpdateDroplet whose output id is that of a
\* droplet still live once the inputs are removed, or whose two output ids
\* are the same.
C14_FatalIds ==
    LET live == DOMAIN start
    IN  /\ (Done("AddDroplet") /\ last.id \in live) => panicked
        /\ (Done("RemoveDroplet") /\ last.id \notin live) => panicked
        /\ (Done("MoveDroplet") /\ last.id \notin live) => panicked
        /\ (Done("UpdateDroplet") /\ last.old_id \notin live) => panicked
        /\ (Done("Mix") /\ ~({last.in0, last.in1} \subseteq live)) => panicked
        /\ (Done("Split") /\ last.inp \notin live) => panicked
        /\ (Done("Mix") /\ last.out \in live \ {last.in0, last.in1})
              => panicked
        /\ (Done("Split") /\ {last.out0, last.out1} \cap (live \ {last.inp}) # {})
              => panicked
        /\ (Done("Split") /\ last.out0 = last.out1) => panicked
        /\ (Done("UpdateDroplet") /\ last.new_id \in live \ {last.old_id})
              => panicked

C14_Witness ==
    /\ Done("Split") /\ panicked
    /\ last.inp \in DOMAIN start
    /\ last.out0 = last.out1
    /\ last.out0 \notin DOMAIN start

(***************************************************************************)
(* Properties of the steps of the manager: they hold of the runs of Spec   *)
(* and of the single calls of StepSpec alike.                              *)
(***************************************************************************)
\* a step that executes an action of this kind and is accepted
Accepted(kind) == ~panicked /\ ~panicked' /\ last'.kind = kind

\* C15: every droplet of the map carries the id it is stored under (so ids
\* are unique); an accepted UpdateDroplet moves the droplet from old_id to
\* new_id, changing its id and nothing else of it nor any other droplet;
\* under every other action a droplet that stays in the map keeps its id.
C15_Identity ==
    /\ [](\A id \in DOMAIN droplets : droplets[id].id = id)
    /\ [][ (Accepted("UpdateDroplet") /\ last'.old_id \in DOMAIN droplets) =>
             /\ DOMAIN droplets' =
                   (DOMAIN droplets \ {last'.old_id}) \cup {last'.new_id}
             /\ droplets'[last'.new_id] =
                   [droplets[last'.old_id] EXCEPT !.id = last'.new_id]
             /\ \A id \in DOMAIN droplets \ {last'.old_id} :
                   droplets'[id] = droplets[id] ]_vars
    /\ [][ (~panicked /\ ~panicked' /\ last'.kind # "UpdateDroplet") =>
             \A id \in DOMAIN droplets \cap DOMAIN droplets' :
                 droplets'[id].id = droplets[id].id ]_vars

C15_Witness ==
    /\ last.kind = "UpdateDroplet" /\ ~panicked
    /\ last.old_id # last.new_id
    /\ last.new_id \in DOMAIN droplets
    /\ Cardinality(DOMAIN droplets) = 2
    /\ droplets[last.new_id].dimensions = Loc(1, 2)
    /\ droplets[last.new_id].volume # 0

(***************************************************************************)
(* Properties of two managers, checked under TwinSpec.                     *)
(***************************************************************************)
\* C16: two managers created with the same grid and split_error_stdev and
\* fed the same actions hold, after every action, droplets of the same ids,
\* locations, dimensions and volumes.
C16_Deterministic ==
    pc = "twin" =>
        /\ DOMAIN twin = DOMAIN droplets
        /\ \A id \in DOMAIN droplets :
              /\ twin[id].id = droplets[id].id
              /\ twin[id].location = droplets[id].location
              /\ twin[id].dimensions = droplets[id].dimensions
              /\ twin[id].volume = droplets[id].volume

C16_Witness ==
    /\ pc = "twin" /\ ~panicked
    /\ last.kind = "Split"
    /\ split_error_stdev = 1
    /\ rng.pos = MaxDraws /\ twin_rng.pos = MaxDraws
    /\ droplets[last.out0].volume # droplets[last.out1].volume
    /\ twin[last.out0].volume = droplets[last.out0].volume

(***************************************************************************)
(* Properties of paths_to_actions, checked under PathsSpec.                *)
(***************************************************************************)
\* paths_to_actions has returned and none of its actions has been executed
Translated == pc \in { "executing", "done" } /\ IsSome(result) /\ last = NoAction

\* the positions of the Ticks of a stream, and of its i-th Tick (0-based)
TickPositions(as) == { k \in 1..Len(as) : as[k] = TickA }
TickPos(as, i) ==
    IF i < 0 THEN 0
    ELSE CHOOSE k \in TickPositions(as) :
            Cardinality({ j \in TickPositions(as) : j < k }) = i

\* the positions strictly between the (i-1)-th and the i-th Tick
Segment(as, i) == (TickPos(as, i - 1) + 1)..(TickPos(as, i) - 1)

\* C17: the stream of paths_to_actions holds exactly max-path-length Ticks
\* and ends with a Tick (it is empty for an empty map); between the (i-1)-th
\* and the i-th Tick there is exactly one MoveDroplet{id, path[i]} for each
\* droplet whose path has an index i, and nothing else.
C17_TickByTick ==
    Translated =>
        LET paths == Unwrap(result)
            max_len == SeqMax({ Len(paths[id]) : id \in DOMAIN paths })
        IN  /\ Cardinality(TickPositions(acts)) = max_len
            /\ acts # <<>> => acts[Len(acts)] = TickA
            /\ DOMAIN paths = {} => acts = <<>>
            /\ \A i \in 0..(max_len - 1) :
                 /\ \A k \in Segment(acts, i) :
                      /\ acts[k].kind = "MoveDroplet"
                      /\ acts[k].id \in DOMAIN paths
                 /\ \A id \in DOMAIN paths :
                      LET moves == { k \in Segment(acts, i) : acts[k].id = id }
                      IN  IF i < Len(paths[id])
                          THEN /\ Cardinality(moves) = 1
                               /\ \A k \in moves :
                                    acts[k].location = paths[id][i + 1]
                          ELSE moves = {}

C17_Witness ==
    /\ Translated
    /\ LET paths == Unwrap(result)
       IN  /\ DOMAIN paths = StepIds
           /\ \E a \in StepIds, b \in StepIds, c \in StepIds :
                /\ Len(paths[a]) = 0
                /\ Len(paths[b]) = 2
                /\ Len(paths[c]) = MaxPathLen
    /\ Cardinality(TickPositions(acts)) = MaxPathLen

(***************************************************************************)
(* Properties of one route_many call, checked under AttemptSpec.           *)
(***************************************************************************)
\* the tick at which the droplet of a path parks, and the cells it then
\* keeps others out of
ParkingTick(path) == Len(path) - 1
FinalFootprint(id) ==
    neighbors_dimensions(grid, attempt.paths[id][Len(attempt.paths[id])],
                         droplets[id].dimensions)

\* the filter drops the candidate node
Rejected(av, node) == filter(av, << <<WaitCost, node>> >>) = <<>>

\* the horizon the next route_one call of the attempt gets
NextHorizon == Cardinality(locations(grid)) + attempt.max_t

\* C18: for every droplet already routed in the attempt and every cell of the
\* inflated footprint of its final cell, the filter rejects every candidate
\* node on that cell at or after the tick at which the droplet parks.
C18_ParkedCellsRejected ==
    \A id \in DOMAIN attempt.paths :
        \A c \in FinalFootprint(id) :
            \A t \in ParkingTick(attempt.paths[id])..NextHorizon :
                Rejected(attempt.av_set, Node(c, t))

\* route_one has just been called for the droplet at index k - 1 and has
\* found a path
RoutedOne == attempt.k > 1 /\ IsSome(attempt.goal)

\* the droplets routed in the attempt before that call
PriorIds == { attempt.order[j] : j \in 1..(attempt.k - 2) }

RECURSIVE SumLen(_, _)
SumLen(paths, ids) ==
    IF ids = {} THEN 0
    ELSE LET id == CHOOSE x \in ids : TRUE
         IN  Len(paths[id]) + SumLen(paths, ids \ {id})

\* C19 as stated: the horizon handed to route_one is the number of grid cells
\* plus the sum of the lengths of the paths already found in the attempt, and
\* no node of a later time is expanded.
C19_HorizonIsSum ==
    RoutedOne =>
        /\ attempt.horizon =
              Cardinality(locations(grid)) + SumLen(attempt.paths, PriorIds)
        /\ \A node \in attempt.expanded : node.time <= attempt.horizon

\* C19 amended: the horizon handed to route_one is the number of grid cells
\* plus the length of the longest path already found in the attempt (0 when
\* there is none), and no node of a later time is expanded.
C19_HorizonIsMax ==
    RoutedOne =>
        /\ attempt.horizon =
              Cardinality(locations(grid))
              + SeqMax({ Len(attempt.paths[id]) : id \in PriorIds })
        /\ \A node \in attempt.expanded : node.time <= attempt.horizon

C19_Witness ==
    /\ RoutedOne
    /\ Cardinality(PriorIds) = 2
    /\ \E id \in PriorIds : Len(attempt.paths[id]) > 1
    /\ \E node \in attempt.expanded : node.time > 1

\* the droplet that call routed
RoutedDroplet == droplets[attempt.order[attempt.k - 1]]

\* C20: the search accepts a node (L, t) as its goal only if L is the
\* droplet's destination (its start when it has none) and no node (L, t') with
\* t <= t' <= max_time is in the present set, max_time being the latest
\* parking tick of the droplets routed before.
C20_GoalFreeThroughMaxTime ==
    RoutedOne =>
        LET node == Unwrap(attempt.goal)
            av == attempt.before
        IN  /\ node.location = destination_or_location(RoutedDroplet)
            /\ \A t \in node.time..av.max_time :
                  Node(node.location, t) \notin av.present

(***************************************************************************)
(* Properties of routing two snapshots, checked under GroupSpec.           *)
(***************************************************************************)
\* C21: for two snapshots that differ only in the collision groups of their
\* droplets, route_many in the same droplet order returns the same outcome:
\* the same paths, or failure for both.
C21_GroupsIgnored ==
    pc = "compared" => twin_result = result

C21_Witness ==
    /\ pc = "compared"
    /\ IsSome(result)
    /\ \E a \in DOMAIN droplets, b \in DOMAIN droplets :
         /\ a # b
         /\ droplets[a].collision_group # droplets[b].collision_group
         /\ twin[a].collision_group = twin[b].collision_group
         /\ Len(Unwrap(result)[a]) > 1
         /\ Len(Unwrap(twin_result)[b]) > 1

=============================================================================
